---- MODULE Spec2Model ----
(***************************************************************************)
(* A model of src/index.ts: one run of main() loads videos.txt, lists the  *)
(* channel page by page (search.list), hydrates the unseen videos in       *)
(* chunks (videos.list), refreshes the statistics of the stored videos in  *)
(* chunks (videos.list), then sorts, normalizes the titles and overwrites  *)
(* videos.txt.  A remote call takes two steps: the call is issued and main  *)
(* is suspended at the await, then the call returns or throws and the      *)
(* synchronous code up to the next call runs.                              *)
(*                                                                         *)
(* Identifiers are naturals standing for the video id strings; 0 stands    *)
(* for a missing or empty id (falsy in JavaScript).  Titles are sequences  *)
(* of one-character strings; "U2018" and "U2019" stand for the characters  *)
(* U+2018 and U+2019.                                                      *)
(***************************************************************************)
EXTENDS Integers, Sequences, FiniteSets, TLC

VARIABLES
    file,            \* rows of videos.txt (cell texts), in file order
    pages,           \* the provider's listing: page k is what token k returns
    details,         \* the provider's videos.list resource of each id
    pc,              \* where main() is
    existingVideos,  \* main: existingVideos (mutated in place by the refresh)
    existingIds,     \* main: existingIds
    newVideos,       \* getNewVideos: newVideos
    pageToken,       \* getNewVideos: pageToken (0 = undefined)
    i,               \* loop index of the running chunk loop
    request,         \* the last remote call issued in this run
    listed,          \* history: the items of the pages received in this run
    fileAtLoad,      \* history: videos.txt as read at the start of this run
    errored,         \* history: a remote call of this run has thrown
    saved,           \* history: fs.writeFile was called in this run
    prevOk,          \* history: the previous run ended with a save
    searchCalls,     \* getNewVideos: totalApiCalls
    runs,            \* number of runs started
    inFlight,        \* remote calls issued and not yet settled
    ops,             \* history: the operations of this run, in order
    tokens           \* history: the nextPageToken of each page received

vars == <<file, pages, details, pc, existingVideos, existingIds, newVideos,
          pageToken, i, request, listed, fileAtLoad, errored, saved, prevOk,
          searchCalls, runs, inFlight, ops, tokens>>

-----------------------------------------------------------------------------
(* Bounds of the model *)

MaxVideos == 3       \* rows of videos.txt plus listed items in the small inputs
MaxBulk == 101       \* rows / items in the large inputs (more than two chunks)
MaxRuns == 2         \* consecutive runs of main()
MaxSearchCalls == 4  \* listing calls of one run (a provider may loop its tokens)

(* Program constants: the chunk size of both videos.list loops and the page
   size asked of search.list *)
ChunkSize == 50
MaxResults == 50

-----------------------------------------------------------------------------
(* JavaScript values of the optional count fields *)

Undefined == [t |-> "undefined", n |-> 0, s |-> ""]
Num(n) == [t |-> "number", n |-> n, s |-> ""]
Str(s) == [t |-> "string", n |-> 0, s |-> s]

NaN == -1

\* Number(v) for the values the model draws counts from; NaN for the rest.
ToNumber(v) ==
    IF v.t = "number" THEN v.n
    ELSE IF v.t = "undefined" THEN NaN
    ELSE CASE v.s = "" -> 0
           [] v.s = "0" -> 0
           [] v.s = "1" -> 1
           [] v.s = "2" -> 2
           [] v.s = "5" -> 5
           [] v.s = "7" -> 7
           [] OTHER -> NaN

\* Number(v) || 0
NumberOrZero(v) == IF ToNumber(v) = NaN THEN Num(0) ELSE Num(ToNumber(v))

\* csv-stringify's cell text of a count: undefined is an empty cell
CellOf(v) ==
    IF v.t = "undefined" THEN ""
    ELSE IF v.t = "number" THEN ToString(v.n)
    ELSE v.s

-----------------------------------------------------------------------------
(* Timestamps *)

T1 == "1970-01-02T00:00:00Z"
T2 == "1970-01-03T00:00:00Z"
T3 == "1970-01-04T00:00:00Z"

\* new Date(s).getTime() in milliseconds; NaN for an unparseable string
DateGetTime(s) ==
    CASE s = T1 -> 86400000
      [] s = T2 -> 172800000
      [] s = T3 -> 259200000
      [] OTHER -> NaN

\* the comparator of main's sort; a NaN result counts as +0 (SortCompare)
CompareFn(a, b) ==
    LET tb == DateGetTime(b.PublishedAt)
        ta == DateGetTime(a.PublishedAt)
    IN  IF tb = NaN \/ ta = NaN THEN 0 ELSE tb - ta

\* the dates of s that are later than every date in done (none: {})
LatestLeft(s, done) ==
    LET left == {DateGetTime(s[k].PublishedAt) : k \in 1..Len(s)} \ done
    IN  {t \in left : \A u \in left : u <= t}

RECURSIVE SortFrom(_, _)
\* a stable descending sort: the elements of the latest date in their input
\* order, then those of the next date, and so on
SortFrom(s, done) ==
    IF LatestLeft(s, done) = {} THEN << >>
    ELSE SelectSeq(s, LAMBDA v : DateGetTime(v.PublishedAt) \in LatestLeft(s, done))
            \o SortFrom(s, done \cup LatestLeft(s, done))

\* the stable sort under a consistent comparator: if an element has no
\* parseable date every element compares equal and the order is kept
StableSort(s) ==
    IF \E k \in 1..Len(s) : DateGetTime(s[k].PublishedAt) = NaN THEN s
    ELSE SortFrom(s, {})

\* The comparator is consistent unless an unparseable date compares equal to
\* two parseable dates that differ from each other.
ConsistentComparator(s) ==
    LET times == {DateGetTime(s[k].PublishedAt) : k \in 1..Len(s)}
    IN  NaN \notin times \/ Cardinality(times \ {NaN}) <= 1

IndexPermutations(n) ==
    {p \in [1..n -> 1..n] : \A a \in 1..n : \E b \in 1..n : p[b] = a}

\* Array.prototype.sort: stable for a consistent comparator, an
\* implementation-defined order of the same elements otherwise
SortOutcomes(s) ==
    IF ConsistentComparator(s) THEN {StableSort(s)}
    ELSE {[k \in 1..Len(s) |-> s[p[k]]] : p \in IndexPermutations(Len(s))}

-----------------------------------------------------------------------------
(* Title normalization *)

\* named entities he.decode knows, of those the titles use
EntityChar(name) ==
    CASE name = <<"a", "m", "p">> -> "&"
      [] name = <<"q", "u", "o", "t">> -> "\""
      [] name = <<"r", "s", "q", "u", "o">> -> "U2019"
      [] name = <<"l", "s", "q", "u", "o">> -> "U2018"
      [] OTHER -> ""

\* the entities he.decode also accepts without the closing semicolon
LegacyEntity(name) ==
    name = <<"a", "m", "p">> \/ name = <<"q", "u", "o", "t">>

EntityNameLengths == {3, 4, 5}

\* Length of the entity reference starting at s[k] (= "&") and its character:
\* "&name;" first, then a legacy "&name" not followed by ";"
EntityAt(s, k) ==
    LET withSemi == {n \in EntityNameLengths :
                        /\ k + n + 1 <= Len(s)
                        /\ s[k + n + 1] = ";"
                        /\ EntityChar(SubSeq(s, k + 1, k + n)) # ""}
        legacy == {n \in EntityNameLengths :
                        /\ k + n <= Len(s)
                        /\ LegacyEntity(SubSeq(s, k + 1, k + n))
                        /\ (k + n + 1 <= Len(s) => s[k + n + 1] # ";")}
    IN  IF withSemi # {}
        THEN LET n == CHOOSE m \in withSemi : TRUE
             IN  [len |-> n + 2, ch |-> EntityChar(SubSeq(s, k + 1, k + n))]
        ELSE IF legacy # {}
        THEN LET n == CHOOSE m \in legacy : TRUE
             IN  [len |-> n + 1, ch |-> EntityChar(SubSeq(s, k + 1, k + n))]
        ELSE [len |-> 0, ch |-> ""]

RECURSIVE DecodeFrom(_, _)
DecodeFrom(s, k) ==
    IF k > Len(s) THEN << >>
    ELSE IF s[k] = "&" /\ EntityAt(s, k).len > 0
         THEN <<EntityAt(s, k).ch>> \o DecodeFrom(s, k + EntityAt(s, k).len)
         ELSE <<s[k]>> \o DecodeFrom(s, k + 1)

\* he.decode(title)
HeDecode(s) == DecodeFrom(s, 1)

\* .replace(/[‘’]/g, "'")
ReplaceCurly(s) ==
    [k \in 1..Len(s) |-> IF s[k] \in {"U2018", "U2019"} THEN "'" ELSE s[k]]

\* index of the double quote closing a non-empty span opened at s[k], or 0
ClosingQuote(s, k) ==
    LET later == {j \in (k + 1)..Len(s) : s[j] = "\""}
    IN  IF later = {} THEN 0
        ELSE LET j == CHOOSE m \in later : \A o \in later : m <= o
             IN  IF j > k + 1 THEN j ELSE 0

RECURSIVE RequoteFrom(_, _)
RequoteFrom(s, k) ==
    IF k > Len(s) THEN << >>
    ELSE IF s[k] = "\"" /\ ClosingQuote(s, k) > 0
         THEN <<"'">> \o SubSeq(s, k + 1, ClosingQuote(s, k) - 1) \o <<"'">>
                \o RequoteFrom(s, ClosingQuote(s, k) + 1)
         ELSE <<s[k]>> \o RequoteFrom(s, k + 1)

\* .replace(/"([^"]+)"/g, "'$1'")
ReplaceQuoted(s) == RequoteFrom(s, 1)

\* the title map with the entities decoded last
NormalizeDecodeLast(title) == HeDecode(ReplaceQuoted(ReplaceCurly(title)))

NormalizeTitle(title) == ReplaceQuoted(ReplaceCurly(HeDecode(title)))

-----------------------------------------------------------------------------
(* Records *)

\* csv-parse with columns: true: every cell is a string
ParseRow(row) ==
    [ID |-> row.ID, Title |-> row.Title, PublishedAt |-> row.PublishedAt,
     Duration |-> row.Duration,
     ViewCount |-> Str(row.ViewCount), LikeCount |-> Str(row.LikeCount)]

\* readCsvFile (a missing file is the empty sequence of rows)
ReadCsvFile(f) == [k \in 1..Len(f) |-> ParseRow(f[k])]

\* csv-stringify of one record, columns ID .. LikeCount
StringifyRow(v) ==
    [ID |-> v.ID, Title |-> v.Title, PublishedAt |-> v.PublishedAt,
     Duration |-> v.Duration,
     ViewCount |-> CellOf(v.ViewCount), LikeCount |-> CellOf(v.LikeCount)]

Stringify(videos) == [k \in 1..Len(videos) |-> StringifyRow(videos[k])]

\* the record pushed for a listed item (lines 45-50)
ProvisionalRecord(item) ==
    [ID |-> item.videoId, Title |-> item.title, PublishedAt |-> item.publishedAt,
     Duration |-> "", ViewCount |-> Undefined, LikeCount |-> Undefined]

\* mutant: the known-id test is lost
IsNewItemAnyId(item, known) == item.videoId # 0

\* item.id?.videoId && !existingIds.has(item.id.videoId)
IsNewItem(item, known) == item.videoId # 0 /\ item.videoId \notin known

\* the for loop over one page's items: the new ones are pushed in page order
CollectNew(acc, items, known) ==
    LET fresh == SelectSeq(items, LAMBDA item : IsNewItem(item, known))
    IN  acc \o [k \in 1..Len(fresh) |-> ProvisionalRecord(fresh[k])]

\* mutant: slice(i) instead of slice(i, i + 50)
ChunkToEnd(videos, from) == SubSeq(videos, from + 1, Len(videos))

\* videos.slice(i, i + 50), i counted from 0
Chunk(videos, from) ==
    SubSeq(videos, from + 1, IF from + ChunkSize < Len(videos)
                             THEN from + ChunkSize ELSE Len(videos))

ChunkIds(videos, from) ==
    [k \in 1..Len(Chunk(videos, from)) |-> Chunk(videos, from)[k].ID]

\* videos.find(v => v.ID === id): index of the first match, 0 if none
FindIndex(videos, id) ==
    LET hits == {k \in 1..Len(videos) : videos[k].ID = id}
    IN  IF hits = {} THEN 0 ELSE CHOOSE k \in hits : \A m \in hits : k <= m

\* the provider's answer to videos.list(ids): the resources it has, in
\* request order
DetailResponse(ids) ==
    LET present == SelectSeq(ids, LAMBDA id : details[id].present)
    IN  [k \in 1..Len(present) |-> [id |-> present[k]] @@ details[present[k]]]

\* the assignments of the hydration callback (lines 73-75)
HydrateOne(video, item) ==
    [video EXCEPT
        !.Duration = item.duration,
        !.ViewCount = NumberOrZero(IF item.statistics
                                   THEN item.viewCount ELSE Undefined),
        !.LikeCount = NumberOrZero(IF item.statistics
                                   THEN item.likeCount ELSE Undefined)]

\* the assignments of the refresh callback (lines 103-104)
RefreshOne(video, item) ==
    [video EXCEPT
        !.ViewCount = NumberOrZero(item.viewCount),
        !.LikeCount = NumberOrZero(item.likeCount)]

\* the index of the last of the items that the forEach applies to videos[k]
\* (find() returns the first record of the item's id); 0 if there is none
LastItemFor(videos, k, items) ==
    LET hits == {j \in 1..Len(items) : items[j].id = videos[k].ID}
    IN  IF hits = {} \/ FindIndex(videos, videos[k].ID) # k THEN 0
        ELSE CHOOSE j \in hits : \A m \in hits : m <= j

\* response.data.items?.forEach(...) of the hydration loop (lines 70-77):
\* only an item with contentDetails is applied
HydrateAll(videos, items) ==
    LET usable == SelectSeq(items, LAMBDA item : item.contentDetails)
    IN  [k \in 1..Len(videos) |->
            IF LastItemFor(videos, k, usable) = 0 THEN videos[k]
            ELSE HydrateOne(videos[k], usable[LastItemFor(videos, k, usable)])]

\* mutant: a record the response does not mention has its counts zeroed
RefreshAllZeroing(videos, items) ==
    LET usable == SelectSeq(items, LAMBDA item : item.statistics)
    IN  [k \in 1..Len(videos) |->
            IF LastItemFor(videos, k, usable) = 0
            THEN [videos[k] EXCEPT !.ViewCount = Num(0), !.LikeCount = Num(0)]
            ELSE RefreshOne(videos[k], usable[LastItemFor(videos, k, usable)])]

\* mutant: only the records the response mentions are kept
RefreshAllDropping(videos, items) ==
    LET usable == SelectSeq(items, LAMBDA item : item.statistics)
    IN  SelectSeq([k \in 1..Len(videos) |->
                      IF LastItemFor(videos, k, usable) = 0 THEN videos[k]
                      ELSE RefreshOne(videos[k],
                                      usable[LastItemFor(videos, k, usable)])],
                  LAMBDA v : \E j \in 1..Len(items) : items[j].id = v.ID)

\* response.data.items?.forEach(...) of the refresh loop (lines 100-106):
\* only an item with statistics is applied
RefreshAll(videos, items) ==
    LET usable == SelectSeq(items, LAMBDA item : item.statistics)
    IN  [k \in 1..Len(videos) |->
            IF LastItemFor(videos, k, usable) = 0 THEN videos[k]
            ELSE RefreshOne(videos[k], usable[LastItemFor(videos, k, usable)])]

\* lines 169-174
ProcessVideo(v) == [v EXCEPT !.Title = NormalizeTitle(v.Title)]

ProcessVideos(videos) == [k \in 1..Len(videos) |-> ProcessVideo(videos[k])]

-----------------------------------------------------------------------------
(* The run *)

NoRequest == [kind |-> "none", ids |-> << >>, token |-> 0]

\* the page a token designates; the first call passes no token
PageFor(token) == pages[IF token = 0 THEN 1 ELSE token]

\* where main() goes when getNewVideos has returned: the refresh loop, or
\* straight to the merge when there is nothing to refresh
EnterRefresh(videos) == IF Len(videos) > 0 THEN "refresh" ELSE "save"

\* the hydration entered without the test of line 62
EnterHydrateAlways(fresh, videos) == "hydrate"

\* where getNewVideos goes after the listing loop (line 62)
EnterHydrate(fresh, videos) ==
    IF Len(fresh) > 0 THEN "hydrate" ELSE EnterRefresh(videos)

\* mutant: the catch swallows the error and main goes on to the merge
AbortSwallowed ==
    /\ pc' = "save"
    /\ errored' = TRUE
    /\ inFlight' = inFlight - 1
    /\ UNCHANGED <<file, pages, details, existingVideos, existingIds, newVideos,
                   pageToken, i, listed, fileAtLoad, saved, prevOk, searchCalls,
                   runs, request, ops, tokens>>

\* the failed call is issued again instead of the error being rethrown
AbortRetried ==
    /\ pc' = CASE pc = "listWait" -> "list"
               [] pc = "hydrateWait" -> "hydrate"
               [] pc = "refreshWait" -> "refresh"
    /\ errored' = TRUE
    /\ inFlight' = inFlight - 1
    /\ UNCHANGED <<file, pages, details, existingVideos, existingIds, newVideos,
                   pageToken, i, listed, fileAtLoad, saved, prevOk, searchCalls,
                   runs, request, ops, tokens>>

\* an error thrown by a remote call reaches main's catch: nothing is kept
Abort ==
    /\ pc' = "failed"
    /\ errored' = TRUE
    /\ existingVideos' = << >>
    /\ existingIds' = {}
    /\ newVideos' = << >>
    /\ pageToken' = 0
    /\ i' = 0
    /\ listed' = << >>
    /\ searchCalls' = 0
    /\ inFlight' = inFlight - 1
    /\ UNCHANGED <<file, pages, details, fileAtLoad, saved, prevOk, runs,
                   request, ops, tokens>>

Op(name, ids, token) == [op |-> name, ids |-> ids, token |-> token]

\* lines 151-157: read the file, build the id set, enter getNewVideos
Load ==
    /\ pc = "load"
    /\ existingVideos' = ReadCsvFile(file)
    /\ existingIds' = {file[k].ID : k \in 1..Len(file)}
    /\ fileAtLoad' = file
    /\ newVideos' = << >>
    /\ pageToken' = 0
    /\ searchCalls' = 0
    /\ i' = 0
    /\ listed' = << >>
    /\ request' = NoRequest
    /\ ops' = <<Op("load", << >>, 0)>>
    /\ tokens' = << >>
    /\ pc' = "list"
    /\ UNCHANGED <<file, pages, details, errored, saved, prevOk, runs, inFlight>>

\* lines 31-39: the do-while issues search.list with the current token
CallSearch ==
    /\ pc = "list"
    /\ searchCalls < MaxSearchCalls
    /\ searchCalls' = searchCalls + 1
    /\ request' = [kind |-> "search", ids |-> << >>, token |-> pageToken]
    /\ ops' = Append(ops, Op("search", << >>, pageToken))
    /\ inFlight' = inFlight + 1
    /\ pc' = "listWait"
    /\ UNCHANGED <<file, pages, details, existingVideos, existingIds, newVideos,
                   pageToken, i, listed, fileAtLoad, errored, saved, prevOk,
                   runs, tokens>>

\* the listing loop also ending at a page without items
ListPageStopsOnEmpty ==
    /\ pc = "listWait"
    /\ LET response == PageFor(pageToken)
           found == CollectNew(newVideos, response.items, existingIds)
       IN  /\ newVideos' = found
           /\ listed' = listed \o response.items
           /\ tokens' = Append(tokens, response.nextPageToken)
           /\ pageToken' = response.nextPageToken
           /\ pc' = IF response.nextPageToken # 0 /\ response.items # << >>
                    THEN "list"
                    ELSE EnterHydrate(found, existingVideos)
    /\ i' = 0
    /\ inFlight' = inFlight - 1
    /\ UNCHANGED <<file, pages, details, existingVideos, existingIds, request,
                   fileAtLoad, errored, saved, prevOk, searchCalls, runs, ops>>

\* lines 41-57: search.list returns a page; its items are scanned and the
\* loop goes on while the response carries a token
ListPage ==
    /\ pc = "listWait"
    /\ LET response == PageFor(pageToken)
           found == CollectNew(newVideos, response.items, existingIds)
       IN  /\ newVideos' = found
           /\ listed' = listed \o response.items
           /\ tokens' = Append(tokens, response.nextPageToken)
           /\ pageToken' = response.nextPageToken
           /\ pc' = IF response.nextPageToken # 0 THEN "list"
                    ELSE EnterHydrate(found, existingVideos)
    /\ i' = 0
    /\ inFlight' = inFlight - 1
    /\ UNCHANGED <<file, pages, details, existingVideos, existingIds, request,
                   fileAtLoad, errored, saved, prevOk, searchCalls, runs, ops>>

\* search.list throws (lines 84-87, then 193-195)
ListFails ==
    /\ pc = "listWait"
    /\ Abort

\* the hydration loop issuing videos.list without awaiting it
CallHydrateUnawaited ==
    /\ pc = "hydrate"
    /\ request' = [kind |-> "videos", ids |-> ChunkIds(newVideos, i), token |-> 0]
    /\ ops' = Append(ops, Op("hydrate", ChunkIds(newVideos, i), 0))
    /\ inFlight' = inFlight + 1
    /\ i' = IF i + ChunkSize < Len(newVideos) THEN i + ChunkSize ELSE i
    /\ pc' = IF i + ChunkSize < Len(newVideos) THEN "hydrate" ELSE "hydrateWait"
    /\ UNCHANGED <<file, pages, details, existingVideos, existingIds, newVideos,
                   pageToken, listed, fileAtLoad, errored, saved, prevOk,
                   searchCalls, runs, tokens>>

\* lines 63-68: the hydration loop issues videos.list for the chunk at i
CallHydrate ==
    /\ pc = "hydrate"
    /\ request' = [kind |-> "videos", ids |-> ChunkIds(newVideos, i), token |-> 0]
    /\ ops' = Append(ops, Op("hydrate", ChunkIds(newVideos, i), 0))
    /\ inFlight' = inFlight + 1
    /\ pc' = "hydrateWait"
    /\ UNCHANGED <<file, pages, details, existingVideos, existingIds, newVideos,
                   pageToken, i, listed, fileAtLoad, errored, saved, prevOk,
                   searchCalls, runs, tokens>>

\* lines 70-80: videos.list returns; the rest of one hydration iteration
HydrateChunk ==
    /\ pc = "hydrateWait"
    /\ newVideos' = HydrateAll(newVideos, DetailResponse(ChunkIds(newVideos, i)))
    /\ i' = IF i + ChunkSize < Len(newVideos) THEN i + ChunkSize ELSE 0
    /\ pc' = IF i + ChunkSize < Len(newVideos) THEN "hydrate"
             ELSE EnterRefresh(existingVideos)
    /\ inFlight' = inFlight - 1
    /\ UNCHANGED <<file, pages, details, existingVideos, existingIds, pageToken,
                   request, listed, fileAtLoad, errored, saved, prevOk,
                   searchCalls, runs, ops, tokens>>

\* videos.list throws during hydration (lines 84-87, then 193-195)
HydrateFails ==
    /\ pc = "hydrateWait"
    /\ Abort

\* lines 93-98: the refresh loop issues videos.list for the chunk at i
CallRefresh ==
    /\ pc = "refresh"
    /\ request' = [kind |-> "videos", ids |-> ChunkIds(existingVideos, i),
                   token |-> 0]
    /\ ops' = Append(ops, Op("refresh", ChunkIds(existingVideos, i), 0))
    /\ inFlight' = inFlight + 1
    /\ pc' = "refreshWait"
    /\ UNCHANGED <<file, pages, details, existingVideos, existingIds, newVideos,
                   pageToken, i, listed, fileAtLoad, errored, saved, prevOk,
                   searchCalls, runs, tokens>>

\* lines 100-109: videos.list returns; the rest of one refresh iteration
RefreshChunk ==
    /\ pc = "refreshWait"
    /\ existingVideos' =
          RefreshAll(existingVideos, DetailResponse(ChunkIds(existingVideos, i)))
    /\ i' = IF i + ChunkSize < Len(existingVideos) THEN i + ChunkSize ELSE 0
    /\ pc' = IF i + ChunkSize < Len(existingVideos) THEN "refresh" ELSE "save"
    /\ inFlight' = inFlight - 1
    /\ UNCHANGED <<file, pages, details, existingIds, newVideos, pageToken,
                   request, listed, fileAtLoad, errored, saved, prevOk,
                   searchCalls, runs, ops, tokens>>

\* videos.list throws during the refresh (lines 112-115, then 193-195)
RefreshFails ==
    /\ pc = "refreshWait"
    /\ Abort

\* lines 165-182: merge, sort, normalize the titles, overwrite the file
Save ==
    /\ pc = "save"
    /\ \E allVideos \in SortOutcomes(existingVideos \o newVideos) :
           file' = Stringify(ProcessVideos(allVideos))
    /\ ops' = ops \o <<Op("sort", << >>, 0), Op("normalize", << >>, 0),
                       Op("save", << >>, 0)>>
    /\ saved' = TRUE
    /\ pc' = "done"
    /\ UNCHANGED <<pages, details, existingVideos, existingIds, newVideos,
                   pageToken, i, request, listed, fileAtLoad, errored, prevOk,
                   searchCalls, runs, inFlight, tokens>>

\* the program is started again (line 198) on the file a completed run wrote
NextRun ==
    /\ pc = "done"
    /\ runs < MaxRuns
    /\ runs' = runs + 1
    /\ prevOk' = TRUE
    /\ pc' = "load"
    /\ errored' = FALSE
    /\ saved' = FALSE
    /\ existingVideos' = << >>
    /\ existingIds' = {}
    /\ newVideos' = << >>
    /\ pageToken' = 0
    /\ i' = 0
    /\ listed' = << >>
    /\ searchCalls' = 0
    /\ request' = NoRequest
    /\ ops' = << >>
    /\ tokens' = << >>
    /\ UNCHANGED <<file, pages, details, fileAtLoad, inFlight>>

-----------------------------------------------------------------------------
(* Inputs *)

\* what the provider holds for one id
Absent == [present |-> FALSE, contentDetails |-> FALSE, duration |-> "",
           statistics |-> FALSE, viewCount |-> Undefined, likeCount |-> Undefined]
Full == [present |-> TRUE, contentDetails |-> TRUE, duration |-> "PT2M",
         statistics |-> TRUE, viewCount |-> Str("7"), likeCount |-> Str("2")]
\* statistics without contentDetails, the like count hidden
StatsOnly == [present |-> TRUE, contentDetails |-> FALSE, duration |-> "",
              statistics |-> TRUE, viewCount |-> Str("7"), likeCount |-> Undefined]
\* contentDetails without statistics
ContentOnly == [present |-> TRUE, contentDetails |-> TRUE, duration |-> "PT2M",
                statistics |-> FALSE, viewCount |-> Undefined,
                likeCount |-> Undefined]

DetailOptions == {Absent, Full, StatsOnly, ContentOnly}

\* the title the channel gives each video: plain, quoted with entities,
\* and an escaped ampersand entity
TitleOf(id) ==
    CASE id = 2 -> <<"&", "q", "u", "o", "t", ";", "a", "&", "q", "u", "o", "t", ";">>
      [] id = 3 -> <<"&", "a", "m", "p", ";", "a", "m", "p", ";">>
      [] OTHER -> <<"a">>

Row(id, time) ==
    [ID |-> id, Title |-> TitleOf(id), PublishedAt |-> time,
     Duration |-> "PT1M", ViewCount |-> "5", LikeCount |-> "1"]

Item(id, time) == [videoId |-> id, title |-> TitleOf(id), publishedAt |-> time]

\* rows of a stored file: two ids, and a second row of id 1 with another date
LocalRowSet == {Row(1, T1), Row(2, T2), Row(1, T3)}

\* listed items: one without id, and two ids the file may or may not hold
ItemSet == {Item(0, T3), Item(2, T2), Item(3, T1)}

\* a listed item whose snippet has no publishedAt (line 48 stores '')
UndatedItems == {Item(3, "")}

SeqsUpTo(S, n) == UNION {[1..k -> S] : k \in 0..n}

\* the listing in one page, or cut in two pages after k items
TwoPages(items, k) ==
    IF k = Len(items) THEN <<[items |-> items, nextPageToken |-> 0]>>
    ELSE <<[items |-> SubSeq(items, 1, k), nextPageToken |-> 2],
           [items |-> SubSeq(items, k + 1, Len(items)), nextPageToken |-> 0]>>

\* the listing in pages of MaxResults items (at least one page)
PagesOf(items) ==
    LET n == IF Len(items) = 0 THEN 1
             ELSE (Len(items) + MaxResults - 1) \div MaxResults
    IN  [p \in 1..n |->
            [items |-> SubSeq(items, (p - 1) * MaxResults + 1,
                              IF p * MaxResults < Len(items)
                              THEN p * MaxResults ELSE Len(items)),
             nextPageToken |-> IF p < n THEN p + 1 ELSE 0]]

MentionedIds(local, items) ==
    {local[k].ID : k \in 1..Len(local)} \cup
    ({items[k].videoId : k \in 1..Len(items)} \ {0})

InitRun ==
    /\ pc = "load"
    /\ existingVideos = << >>
    /\ existingIds = {}
    /\ newVideos = << >>
    /\ pageToken = 0
    /\ i = 0
    /\ request = NoRequest
    /\ listed = << >>
    /\ fileAtLoad = << >>
    /\ errored = FALSE
    /\ saved = FALSE
    /\ prevOk = FALSE
    /\ searchCalls = 0
    /\ runs = 1
    /\ inFlight = 0
    /\ ops = << >>
    /\ tokens = << >>

\* small files and listings over the given rows and items; the provider's
\* resource of id 1 (a stored video) and that of the other ids are chosen
\* independently; the listing comes in one page or is cut after its first item
InitSmall(rows, items, firsts, others) ==
    /\ \E local \in SeqsUpTo(rows, MaxVideos) :
       \E catalog \in SeqsUpTo(items, MaxVideos - Len(local)) :
       \E k \in {0, 1, Len(catalog)} \cap 0..Len(catalog) :
       \E first \in firsts, other \in others :
           /\ file = local
           /\ pages = TwoPages(catalog, k)
           /\ details = [id \in MentionedIds(local, catalog) |->
                            IF id = 1 THEN first ELSE other]
    /\ InitRun

BulkSizes == {0, 1, ChunkSize, ChunkSize + 1, MaxBulk}

BulkTime(k) == IF k % 2 = 0 THEN T1 ELSE T2

\* the id of the k-th listed item; with overlapping pages the first item of
\* the second page is the last item of the first page again
BulkItemId(k, overlap) ==
    MaxBulk + (IF overlap /\ k = MaxResults + 1 THEN MaxResults ELSE k)

\* large files and listings: rows 1..n, listed items MaxBulk+1..MaxBulk+m
InitBulk ==
    /\ \E n \in BulkSizes, m \in BulkSizes, d \in {Absent, Full},
          overlap \in BOOLEAN :
           /\ overlap => m > MaxResults
           /\ file = [k \in 1..n |-> Row(k, BulkTime(k))]
           /\ pages = PagesOf([k \in 1..m |->
                                 Item(BulkItemId(k, overlap), BulkTime(k))])
           /\ details = [id \in (1..n) \cup ((MaxBulk + 1)..(MaxBulk + m)) |-> d]
    /\ InitRun

\* a provider whose only page names itself as the next page
LoopingPage(items) == <<[items |-> items, nextPageToken |-> 1]>>

\* short files and listings against the looping provider
InitLoop ==
    /\ \E local \in SeqsUpTo(LocalRowSet, 1), catalog \in SeqsUpTo(ItemSet, 1) :
           /\ file = local
           /\ pages = LoopingPage(catalog)
           /\ details = [id \in MentionedIds(local, catalog) |-> Full]
    /\ InitRun

Init ==
    \/ InitSmall(LocalRowSet, ItemSet, {Absent, Full}, DetailOptions)
    \/ InitBulk
    \/ InitLoop

\* the same small inputs with undated items, the provider holding every id
InitDates ==
    InitSmall(LocalRowSet, ItemSet \cup UndatedItems, {Full}, {Full})

\* titles with entities, curly quotes and quoted spans
QuotedEntityTitle ==
    <<"H", "e", " ", "s", "a", "i", "d", " ", "&", "q", "u", "o", "t", ";",
      "H", "i", "&", "r", "s", "q", "u", "o", ";", "s", "&", "q", "u", "o",
      "t", ";", " ", "f", "i", "n", "e">>

CurlyTitle ==
    <<"&", "l", "s", "q", "u", "o", ";", "a", "&", "r", "s", "q", "u", "o",
      ";">>

AmpQuotedTitle ==
    <<"&", "a", "m", "p", ";", " ", "\"", "b", "\"", " ", "\"", "\"">>

\* stored rows and listed items carrying those titles
TitleRowSet ==
    {[Row(1, T1) EXCEPT !.Title = QuotedEntityTitle],
     [Row(2, T2) EXCEPT !.Title = CurlyTitle]}

TitleItemSet ==
    {[Item(3, T3) EXCEPT !.title = QuotedEntityTitle],
     [Item(4, T1) EXCEPT !.title = AmpQuotedTitle]}

InitTitles == InitSmall(TitleRowSet, TitleItemSet, {Full}, {Absent, Full})

Next ==
    \/ Load
    \/ CallSearch
    \/ ListPage
    \/ ListFails
    \/ CallHydrate
    \/ HydrateChunk
    \/ HydrateFails
    \/ CallRefresh
    \/ RefreshChunk
    \/ RefreshFails
    \/ Save
    \/ NextRun

Spec == Init /\ [][Next]_vars

SpecDates == InitDates /\ [][Next]_vars

SpecTitles == InitTitles /\ [][Next]_vars

-----------------------------------------------------------------------------
(* Properties *)

IdsOf(rows) == [k \in 1..Len(rows) |-> rows[k].ID]

IdSet(rows) == {rows[k].ID : k \in 1..Len(rows)}

\* getNewVideos has returned to main in this run
FetchReturned == pc \in {"refresh", "refreshWait", "save", "done"}

\* C1: the dataset written by a run that completes holds each identifier
\* exactly once, whatever the file and the listing contain.
C1_UniqueIds ==
    pc = "done" =>
        \A a \in 1..Len(file) : \A b \in 1..Len(file) :
            file[a].ID = file[b].ID => a = b

\* C2: once a remote call of a run has failed, the run ends without calling
\* the save step and videos.txt still holds what it held when the run loaded it.
C2_NoSaveAfterFailure ==
    errored => (pc = "failed" /\ ~saved /\ file = fileAtLoad)

\* a refresh call (one asking for a stored id) failed in a run that had loaded
\* a non-empty file
C2_Witness ==
    /\ errored
    /\ request.kind = "videos"
    /\ Len(fileAtLoad) > 0
    /\ \E k \in 1..Len(request.ids) : request.ids[k] \in IdSet(fileAtLoad)

CountKey(rows, id, publishedAt) ==
    Cardinality({k \in 1..Len(rows) :
                    rows[k].ID = id /\ rows[k].PublishedAt = publishedAt})

\* C3: every row of the file as loaded is in the file a completed run writes,
\* with the same id and the same publishedAt (counted with multiplicity),
\* also when the listing no longer has the id and no detail response has it.
C3_RecordsKept ==
    pc = "done" =>
        \A k \in 1..Len(fileAtLoad) :
            CountKey(fileAtLoad, fileAtLoad[k].ID, fileAtLoad[k].PublishedAt)
                <= CountKey(file, fileAtLoad[k].ID, fileAtLoad[k].PublishedAt)

\* a completed run whose file held a row the listing did not return and the
\* provider had no details for, next to a newly fetched video
C3_Witness ==
    /\ pc = "done"
    /\ Len(newVideos) > 0
    /\ \E k \in 1..Len(fileAtLoad) :
          /\ fileAtLoad[k].ID \notin {listed[j].videoId : j \in 1..Len(listed)}
          /\ ~details[fileAtLoad[k].ID].present

\* a >= b on parsed dates; false when either is not a date
TimeGeq(a, b) ==
    /\ DateGetTime(a) # NaN
    /\ DateGetTime(b) # NaN
    /\ DateGetTime(a) >= DateGetTime(b)

\* C4: in the file a completed run writes, each row's publishedAt, parsed as a
\* time, is greater than or equal to that of the row after it.
C4_SortedOutput ==
    pc = "done" =>
        \A k \in 1..(Len(file) - 1) :
            TimeGeq(file[k].PublishedAt, file[k + 1].PublishedAt)

\* C5: every videos.list request, of the hydration and of the refresh, asks
\* for at most 50 ids.
C5_BatchSize ==
    request.kind = "videos" => Len(request.ids) <= ChunkSize

\* a second refresh chunk of a file of more than 50 rows has been requested,
\* after a hydration of more than 50 new videos
C5_Witness ==
    /\ pc = "refreshWait"
    /\ i = ChunkSize
    /\ request.kind = "videos"
    /\ Len(request.ids) = ChunkSize
    /\ Len(existingVideos) > ChunkSize
    /\ Len(newVideos) > ChunkSize

\* the ids of the items the provider returns for the chunk starting at i
AnsweredIds(videos) ==
    LET response == DetailResponse(ChunkIds(videos, i))
    IN  {response[j].id : j \in 1..Len(response)}

\* C6: a refresh step that does not fail keeps the sequence's length, leaves
\* every record of its chunk whose id the response does not contain as it was
\* (counts and duration included), and goes on to the next chunk if there is one.
C6_AbsentKept ==
    [][(pc = "refreshWait" /\ ~errored') =>
          /\ Len(existingVideos') = Len(existingVideos)
          /\ \A k \in (i + 1)..(i + ChunkSize) :
                (k <= Len(existingVideos)
                   /\ existingVideos[k].ID \notin AnsweredIds(existingVideos))
                => existingVideos'[k] = existingVideos[k]
          /\ pc' = IF i + ChunkSize < Len(existingVideos) THEN "refresh" ELSE "save"
      ]_vars

\* a refresh has ended in which one record was absent from the response and
\* kept its counts while another record of the same chunk was updated
C6_Witness ==
    /\ pc = "save"
    /\ \E k \in 1..Len(existingVideos) :
          /\ ~details[existingVideos[k].ID].present
          /\ existingVideos[k].ViewCount = Str("5")
          /\ existingVideos[k].Duration = "PT1M"
    /\ \E k \in 1..Len(existingVideos) : existingVideos[k].ViewCount = Num(7)

\* C7: after the refresh, every stored record whose id the provider returned
\* with contentDetails and statistics has the returned viewCount, likeCount
\* and duration.
C7_RefreshOverwrites ==
    pc = "save" =>
        \A k \in 1..Len(existingVideos) :
            LET d == details[existingVideos[k].ID]
            IN  (d.present /\ d.contentDetails /\ d.statistics) =>
                    /\ existingVideos[k].ViewCount = NumberOrZero(d.viewCount)
                    /\ existingVideos[k].LikeCount = NumberOrZero(d.likeCount)
                    /\ existingVideos[k].Duration = d.duration

\* C8: when the fetch has returned, its records are, in listing order over all
\* pages, those of the listed items that carry an id the loaded file does not
\* hold: none for a known id, one for each listed item of an unknown id.
C8_NewIffUnknown ==
    FetchReturned =>
        IdsOf(newVideos) =
            SelectSeq([k \in 1..Len(listed) |-> listed[k].videoId],
                      LAMBDA id : id # 0 /\ id \notin IdSet(fileAtLoad))

\* the fetch returned a new video from a two-page listing that also held an
\* item of a stored id
C8_Witness ==
    /\ FetchReturned
    /\ Len(pages) = 2
    /\ Len(newVideos) > 0
    /\ \E k \in 1..Len(listed) : listed[k].videoId \in IdSet(fileAtLoad)

\* C9: every record the fetch returns has its counts (and duration) filled in
\* from a detail response, whatever the provider answers.
C9_Hydrated ==
    FetchReturned =>
        \A k \in 1..Len(newVideos) :
            /\ newVideos[k].ViewCount.t = "number"
            /\ newVideos[k].LikeCount.t = "number"

\* C10: a completed run that started from the file the previous completed run
\* wrote, against the same provider, writes that same file again.
C10_Idempotent ==
    (pc = "done" /\ prevOk) => file = fileAtLoad

\* the place of each kind of operation in a run
OpRank(name) ==
    CASE name = "load" -> 1
      [] name = "search" -> 2
      [] name = "hydrate" -> 3
      [] name = "refresh" -> 4
      [] name = "sort" -> 5
      [] name = "normalize" -> 6
      [] name = "save" -> 7

RemoteOps == {"search", "hydrate", "refresh"}

OpCount(name) == Cardinality({k \in 1..Len(ops) : ops[k].op = name})

\* C11: the operations of a run happen in the order load, listing calls,
\* hydration calls, refresh calls, sort, normalization, save (only the remote
\* calls repeat), a completed run ends with sort, normalization and save, and
\* at most one remote call is in flight at any time.
C11_Sequential ==
    /\ inFlight \in {0, 1}
    /\ ops # << >> => ops[1].op = "load"
    /\ \A a \in 1..Len(ops) : \A b \in 1..Len(ops) :
          a < b => \/ OpRank(ops[a].op) < OpRank(ops[b].op)
                   \/ ops[a].op = ops[b].op /\ ops[a].op \in RemoteOps
    /\ pc = "done" =>
          /\ inFlight = 0
          /\ Len(ops) >= 4
          /\ ops[Len(ops)].op = "save"
          /\ ops[Len(ops) - 1].op = "normalize"
          /\ ops[Len(ops) - 2].op = "sort"

\* a run completed after several listing, hydration and refresh calls
C11_Witness ==
    /\ pc = "done"
    /\ OpCount("search") >= 2
    /\ OpCount("hydrate") >= 2
    /\ OpCount("refresh") >= 2

\* the listing calls of this run, in order
SearchOps == SelectSeq(ops, LAMBDA o : o.op = "search")

\* the listing is over: control has left the do-while without a failure
ListingOver ==
    pc \in {"hydrate", "hydrateWait", "refresh", "refreshWait", "save", "done"}

\* C12: the first listing call carries no token and each further one carries
\* the token of the response before it; every response but the last carried a
\* token; while the last response carried a token the listing goes on, and
\* once the listing is over the last response carried none and one call was
\* made per response.
C12_ListingFollowsTokens ==
    /\ Len(SearchOps) = searchCalls \/ errored
    /\ Len(SearchOps) \in {Len(tokens), Len(tokens) + 1}
    /\ SearchOps # << >> => SearchOps[1].token = 0
    /\ \A k \in 1..(Len(SearchOps) - 1) :
          /\ tokens[k] # 0
          /\ SearchOps[k + 1].token = tokens[k]
    /\ (~errored /\ tokens # << >> /\ tokens[Len(tokens)] # 0)
          => pc \in {"list", "listWait"}
    /\ ListingOver =>
          /\ tokens # << >>
          /\ tokens[Len(tokens)] = 0
          /\ Len(SearchOps) = Len(tokens)

\* the listing ended at the third page of a three-page listing
C12_Witness ==
    /\ ListingOver
    /\ Len(tokens) = 3
    /\ Len(pages) = 3

\* C13: no videos.list call is ever issued for zero ids; when the listing has
\* ended without a new video no hydration call is issued; and a run that
\* completes from an empty file and an empty listing has issued no videos.list
\* call at all and has written an empty file.
C13_NoEmptyDetailCall ==
    /\ \A k \in 1..Len(ops) :
          ops[k].op \in {"hydrate", "refresh"} => Len(ops[k].ids) >= 1
    /\ request.kind = "videos" => request.ids # << >>
    /\ (ListingOver /\ newVideos = << >>) => OpCount("hydrate") = 0
    /\ (pc = "done" /\ fileAtLoad = << >> /\ listed = << >>) =>
          /\ OpCount("hydrate") = 0
          /\ OpCount("refresh") = 0
          /\ file = << >>

\* a run completed from an empty file and an empty listing
C13_Witness ==
    /\ pc = "done"
    /\ fileAtLoad = << >>
    /\ listed = << >>
    /\ OpCount("search") = 1
    /\ saved

\* what the claim says each title is written as
WrittenTitle(id) ==
    CASE id \in {1, 3} ->
          <<"H", "e", " ", "s", "a", "i", "d", " ", "'", "H", "i", "'", "s",
            "'", " ", "f", "i", "n", "e">>
      [] id = 2 -> <<"'", "a", "'">>
      [] id = 4 ->
          <<"&", " ", "'", "b", "'", " ", "\"", "\"">>

\* C14: every row a completed run writes, stored or new, has its title
\* entity-decoded, then its curly single quotes made apostrophes, then its
\* non-empty double-quoted spans single-quoted: the title
\* He said &quot;Hi&rsquo;s&quot; fine is written He said 'Hi's' fine.
C14_TitlesNormalized ==
    pc = "done" =>
        \A k \in 1..Len(file) : file[k].Title = WrittenTitle(file[k].ID)

\* a first run wrote a stored row and a new row that carried the entity title
C14_Witness ==
    /\ pc = "done"
    /\ runs = 1
    /\ \E k \in 1..Len(fileAtLoad) : fileAtLoad[k].Title = QuotedEntityTitle
    /\ \E k \in 1..Len(newVideos) : newVideos[k].Title = QuotedEntityTitle
    /\ \E k \in 1..Len(file) : file[k].ID = 1 /\ file[k].Title = WrittenTitle(1)
    /\ \E k \in 1..Len(file) : file[k].ID = 3 /\ file[k].Title = WrittenTitle(3)

\* C15: once a remote call has failed the run is over: the failed call is the
\* last operation of the run and no call is in flight, no operation follows
\* it (no retry, no other call, and no refresh after a failed fetch), and
\* main holds no records of the component that failed.
C15_FailureEndsRun ==
    /\ [](errored =>
            /\ pc = "failed"
            /\ inFlight = 0
            /\ ops[Len(ops)].op \in RemoteOps
            /\ ops[Len(ops)].op \in {"search", "hydrate"} => OpCount("refresh") = 0
            /\ newVideos = << >>
            /\ existingVideos = << >>)
    /\ [][errored => (ops' = ops /\ request' = request /\ inFlight' = inFlight)]_vars

\* the second hydration call failed after the first had succeeded
C15_Witness ==
    /\ errored
    /\ OpCount("hydrate") = 2
    /\ ops[Len(ops)].op = "hydrate"
    /\ Len(fileAtLoad) > 0

Batches(n) == (n + ChunkSize - 1) \div ChunkSize

\* the videos.list calls of this run that asked for the id
CallsAsking(id, kinds) ==
    {k \in 1..Len(ops) :
        /\ ops[k].op \in kinds
        /\ \E j \in 1..Len(ops[k].ids) : ops[k].ids[j] = id}

\* C16: when the remote calls of a run are over, Batches(N) + Batches(E)
\* videos.list calls have been issued for N new and E stored records, the id
\* of every record was asked for in exactly one of them, that of a stored
\* record in a refresh call and that of a new record in a hydration call.
C16_DetailCalls ==
    pc \in {"save", "done"} =>
        /\ OpCount("hydrate") + OpCount("refresh")
              = Batches(Len(newVideos)) + Batches(Len(existingVideos))
        /\ \A k \in 1..Len(existingVideos) :
              /\ Cardinality(CallsAsking(existingVideos[k].ID, {"refresh"})) = 1
              /\ CallsAsking(existingVideos[k].ID, {"hydrate"}) = {}
        /\ \A k \in 1..Len(newVideos) :
              /\ Cardinality(CallsAsking(newVideos[k].ID, {"hydrate"})) = 1
              /\ CallsAsking(newVideos[k].ID, {"refresh"}) = {}

\* C17: normalizing a normalized title changes nothing: every title a
\* completed run has written is left as it is by the title map.
C17_NormalizeIdempotent ==
    pc = "done" =>
        \A k \in 1..Len(file) : NormalizeTitle(file[k].Title) = file[k].Title

====
